---- MODULE Spec2Model ----
(***************************************************************************)
(* Model of the PASM parser (src/parser/pasm_2.7.py).                      *)
(*                                                                         *)
(* A source line is a sequence of one-character strings.  Positions are    *)
(* zero-based as in the Python source, so the character at line_pos is     *)
(* line_str[line_pos + 1].                                                 *)
(***************************************************************************)
EXTENDS Integers, Sequences, FiniteSets, TLC

VARIABLES pc, fix_labels, line_num, line_str, multiline_comment,
          label_defs, label_jumps, stmt_list, stdout, f_out, todo

vars == <<pc, fix_labels, line_num, line_str, multiline_comment,
          label_defs, label_jumps, stmt_list, stdout, f_out, todo>>

(***************************************************************************)
(* Character classes and small string helpers.                             *)
(***************************************************************************)
DigitChars == <<"0", "1", "2", "3", "4", "5", "6", "7", "8", "9">>

HexChars == <<"0", "1", "2", "3", "4", "5", "6", "7", "8", "9",
              "a", "b", "c", "d", "e", "f">>

IsDigit(c) == c \in {"0", "1", "2", "3", "4", "5", "6", "7", "8", "9"}

IsHexLetter(c) == c \in {"a", "b", "c", "d", "e", "f", "A", "B", "C", "D", "E", "F"}

IsHexDigit(c) == IsDigit(c) \/ IsHexLetter(c)

IsSpace(c) == c \in {" ", "\t", "\n", "\r"}

\* str.upper() on the characters a hex token can hold
Upper(c) ==
    CASE c = "a" -> "A" [] c = "b" -> "B" [] c = "c" -> "C"
      [] c = "d" -> "D" [] c = "e" -> "E" [] c = "f" -> "F"
      [] c = "r" -> "R" [] c = "x" -> "X"
      [] OTHER -> c

UpperStr(s) == [i \in 1..Len(s) |-> Upper(s[i])]

\* every character of s from index from on is a decimal digit
AllDigits(s, from) == \A i \in from..Len(s) : IsDigit(s[i])

DigitVal(c) == CHOOSE d \in 0..9 : DigitChars[d + 1] = c

\* int(s) for a non-empty run of decimal digits
RECURSIVE int(_)
int(s) ==
    IF Len(s) = 0 THEN 0
    ELSE int(SubSeq(s, 1, Len(s) - 1)) * 10 + DigitVal(s[Len(s)])

\* str(n) for n >= 0
RECURSIVE str(_)
str(n) ==
    IF n < 10 THEN <<DigitChars[n + 1]>>
    ELSE str(n \div 10) \o <<DigitChars[(n % 10) + 1]>>

\* hex(n)[2:] for n >= 0 (lower case, no prefix)
RECURSIVE hex(_)
hex(n) ==
    IF n < 16 THEN <<HexChars[n + 1]>>
    ELSE hex(n \div 16) \o <<HexChars[(n % 16) + 1]>>

Repeat(c, n) == [i \in 1..(IF n > 0 THEN n ELSE 0) |-> c]

\* s.split(':')
RECURSIVE split(_)
split(s) ==
    IF \A i \in 1..Len(s) : s[i] # ":" THEN <<s>>
    ELSE LET k == CHOOSE i \in 1..Len(s) :
                      s[i] = ":" /\ \A j \in 1..(i - 1) : s[j] # ":"
         IN  <<SubSeq(s, 1, k - 1)>> \o split(SubSeq(s, k + 1, Len(s)))

\* line_str[line_pos:line_pos+2]
Slice2(s, line_pos) ==
    SubSeq(s, line_pos + 1, IF line_pos + 2 <= Len(s) THEN line_pos + 2 ELSE Len(s))

(***************************************************************************)
(* read: the maximal run of characters matching a one-character pattern.   *)
(***************************************************************************)
Matches(pattern, c) ==
    CASE pattern = "[0-9]"     -> IsDigit(c)
      [] pattern = "[^\\s,/]"  -> ~IsSpace(c) /\ c # "," /\ c # "/"
      [] pattern = "[\\s]"     -> IsSpace(c)
      [] pattern = "[^\\s]"    -> ~IsSpace(c)

RECURSIVE ReadEnd(_, _, _)
ReadEnd(s, line_pos, pattern) ==
    IF line_pos < Len(s) /\ Matches(pattern, s[line_pos + 1])
    THEN ReadEnd(s, line_pos + 1, pattern)
    ELSE line_pos

read(s, line_pos, pattern) ==
    LET e == ReadEnd(s, line_pos, pattern)
    IN  [literal |-> SubSeq(s, line_pos + 1, e), line_pos |-> e]

skip_spaces(s, line_pos) == read(s, line_pos, "[\\s]").line_pos

(***************************************************************************)
(* Results of the readers: a value and the new position, a PasmSyntaxError *)
(* (err is the key of its message in _text) with the position it carries,  *)
(* or a Python exception that main does not catch.                         *)
(***************************************************************************)
Ok(v, p) == [err |-> "", value |-> v, line_pos |-> p, line_num |-> 0]

\* raise PasmSyntaxError(msg, line_str, line_num, line_pos)
PasmSyntaxError(msg, n, p) == [err |-> msg, value |-> <<>>, line_pos |-> p, line_num |-> n]

\* an exception that is no PasmSyntaxError (indexing an empty string)
IndexError(n, p) == [err |-> "IndexError", value |-> <<>>, line_pos |-> p, line_num |-> n]

\* an exception that is no PasmSyntaxError (_text has no key 'error_data')
KeyError(n, p) == [err |-> "KeyError", value |-> <<>>, line_pos |-> p, line_num |-> n]

\* the exceptions that the except clause of main does not catch
Uncaught == {"IndexError", "KeyError"}

\* read(line_str, line_pos, '[^\s,/]'): the token and the position after it
Token(s, line_pos) == read(s, line_pos, "[^\\s,/]")

(***************************************************************************)
(* r_label                                                                 *)
(***************************************************************************)
LabelMax == 65535

\* r_label with the range check off by one
LabelOfOffByOne(r, line_pos, n) ==
    IF Len(r.literal) = 0
    THEN PasmSyntaxError("error_label_1", n, line_pos)
    ELSE IF int(r.literal) > LabelMax + 1
    THEN PasmSyntaxError("error_label_2", n, line_pos)
    ELSE Ok(int(r.literal), r.line_pos)

\* the checks of r_label on the digits r that read returned
LabelOf(r, line_pos, n) ==
    IF Len(r.literal) = 0
    THEN PasmSyntaxError("error_label_1", n, line_pos)
    ELSE IF int(r.literal) > LabelMax
    THEN PasmSyntaxError("error_label_2", n, line_pos)
    ELSE Ok(int(r.literal), r.line_pos)

r_label(s, line_pos, n) == LabelOf(read(s, line_pos, "[0-9]"), line_pos, n)

(***************************************************************************)
(* r_register                                                              *)
(***************************************************************************)
RegisterMax == 255

\* re.match('^R(0|[1-9][0-9]{0,2})$', register, re.IGNORECASE)
RegisterFormat(t) ==
    /\ Len(t) >= 2
    /\ Len(t) <= 4
    /\ t[1] \in {"R", "r"}
    /\ AllDigits(t, 2)
    /\ (t[2] = "0" => Len(t) = 2)

\* the checks of r_register on the token r that read returned
RegisterOf(r, line_pos, n) ==
    IF ~RegisterFormat(r.literal)
    THEN PasmSyntaxError("error_register_1", n, line_pos)
    ELSE IF int(Tail(r.literal)) > RegisterMax
    THEN PasmSyntaxError("error_register_2", n, line_pos)
    ELSE Ok(r.literal, r.line_pos)

r_register(s, line_pos, n) == RegisterOf(Token(s, line_pos), line_pos, n)

(***************************************************************************)
(* r_byte, r_word, r_dword                                                 *)
(***************************************************************************)
\* re.match('^[0-9a-f]{1,length*2}$', byte_str, re.IGNORECASE)
BytePattern(t, length) ==
    /\ Len(t) >= 1
    /\ Len(t) <= length * 2
    /\ \A i \in 1..Len(t) : IsHexDigit(t[i])

\* hex(0xFFFFFFFF - v + 1)[2:], computed on 16-bit limbs (v < 2^32)
NegHex(v) ==
    LET vh == v \div 65536
        vl == v % 65536
        lo == (65535 - vl) + 1
        hi == (65535 - vh) + (lo \div 65536)
        l  == hex(lo % 65536)
    IN  IF hi = 0 THEN l ELSE hex(hi) \o Repeat("0", 4 - Len(l)) \o l

\* the decimal branch: integers are transformed into hex
DecToHex(t, has_sign) == IF has_sign THEN NegHex(int(t)) ELSE hex(int(t))

\* format uppercase bytes and leading zeros
FormatBytes(t, length) == Repeat("0", length * 2 - Len(t)) \o UpperStr(t)

\* byte_str[:2] == '0x'
Has0x(tok) == Len(tok) >= 2 /\ tok[1] = "0" /\ tok[2] = "x"

\* the value is in hex format: it starts with 0x, 0 or contains A-F
IsHex(tok, hex_input) ==
    \/ hex_input
    \/ Has0x(tok)
    \/ tok[1] = "0"
    \/ \E i \in 1..Len(tok) : IsHexLetter(tok[i])

\* byte_str = byte_str[2:] when it starts with 0x
Strip0x(tok) == IF Has0x(tok) THEN SubSeq(tok, 3, Len(tok)) ELSE tok

\* the value is signed: byte_str[0] == '-' (byte_str is not empty)
HasSign(b) == b[1] = "-"

\* byte_str = byte_str[1:] when it is signed
StripSign(b) == IF HasSign(b) THEN Tail(b) ELSE b

\* r_byte from the pattern check on: b is the text without prefix and sign
ByteOfDigits(b, is_hex, has_sign, new_pos, line_pos, n, length) ==
    IF ~BytePattern(b, length)
    THEN PasmSyntaxError("error_byte", n, line_pos)
    ELSE Ok(FormatBytes(IF is_hex THEN b ELSE DecToHex(b, has_sign), length), new_pos)

\* r_byte on the token tok that read returned; byte_str[0] of an empty
\* string raises IndexError
ByteOf(tok, new_pos, line_pos, n, length, hex_input) ==
    IF Len(Strip0x(tok)) = 0
    THEN IndexError(n, line_pos)
    ELSE ByteOfDigits(StripSign(Strip0x(tok)), IsHex(tok, hex_input),
                      HasSign(Strip0x(tok)), new_pos, line_pos, n, length)

r_byte(s, line_pos, n, length, hex_input) ==
    ByteOf(Token(s, line_pos).literal, Token(s, line_pos).line_pos,
           line_pos, n, length, hex_input)

r_word(s, line_pos, n) == r_byte(s, line_pos, n, 2, FALSE)

r_dword(s, line_pos, n) == r_byte(s, line_pos, n, 4, FALSE)

(***************************************************************************)
(* r_float                                                                 *)
(***************************************************************************)
IsFloatChar(c) == IsDigit(c) \/ c = "."

\* re.match('^-?[\d\.]+$', byte_str)
FloatFormat(t) ==
    LET from == IF Len(t) >= 1 /\ t[1] = "-" THEN 2 ELSE 1
    IN  Len(t) >= from /\ \A i \in from..Len(t) : IsFloatChar(t[i])

FloatOf(r, line_pos, n) ==
    IF ~FloatFormat(r.literal)
    THEN PasmSyntaxError("error_float", n, line_pos)
    ELSE Ok(r.literal, r.line_pos)

r_float(s, line_pos, n) == FloatOf(Token(s, line_pos), line_pos, n)

(***************************************************************************)
(* r_data                                                                  *)
(***************************************************************************)
\* the while loop of r_data: data_list is the list of bytes read so far
RECURSIVE DataLoop(_, _, _, _)

\* after byte b was read: stop on an error, else append it and go on
DataNext(s, n, data_list, b) ==
    IF b.err # "" THEN b
    ELSE DataLoop(s, skip_spaces(s, b.line_pos), n, Append(data_list, b.value))

DataLoop(s, line_pos, n, data_list) ==
    IF line_pos < Len(s) /\ IsHexDigit(s[line_pos + 1])
    THEN DataNext(s, n, data_list, r_byte(s, line_pos, n, 1, TRUE))
    ELSE Ok(data_list, line_pos)

\* data_list[0] followed by ' {}'.format(d) for the others
RECURSIVE JoinSpace(_)
JoinSpace(data_list) ==
    IF Len(data_list) = 1 THEN data_list[1]
    ELSE data_list[1] \o <<" ">> \o JoinSpace(Tail(data_list))

DataOf(d, n) ==
    IF d.err # "" THEN d
    ELSE IF Len(d.value) = 0
    THEN KeyError(n, d.line_pos)
    ELSE Ok(JoinSpace(d.value), d.line_pos)

r_data(s, line_pos, n) == DataOf(DataLoop(s, line_pos, n, <<>>), n)

(***************************************************************************)
(* r_string                                                                *)
(***************************************************************************)
\* a backslash that escapes whatever character follows it
IsEscapeAnyChar(s, line_pos, delimiter) ==
    /\ s[line_pos + 1] = "\\"
    /\ line_pos + 1 < Len(s)

\* an escaped delimiter: a backslash directly followed by the delimiter
IsEscape(s, line_pos, delimiter) ==
    /\ s[line_pos + 1] = "\\"
    /\ line_pos + 1 < Len(s)
    /\ s[line_pos + 2] = delimiter

\* the while loop of r_string: string is the text built so far
RECURSIVE StringLoop(_, _, _, _, _)
StringLoop(s, line_pos, n, delimiter, string) ==
    IF line_pos >= Len(s)
    THEN PasmSyntaxError("error_string_2", n, line_pos)
    ELSE IF s[line_pos + 1] = delimiter
    THEN Ok(string \o <<"'">>, line_pos + 1)
    ELSE IF IsEscape(s, line_pos, delimiter)
    THEN StringLoop(s, line_pos + 2, n, delimiter, string \o <<delimiter>>)
    ELSE StringLoop(s, line_pos + 1, n, delimiter, string \o <<s[line_pos + 1]>>)

r_string(s, line_pos, n) ==
    IF line_pos >= Len(s)
    THEN PasmSyntaxError("error_string_1", n, line_pos)
    ELSE IF s[line_pos + 1] \in {"\"", "'"}
    THEN StringLoop(s, line_pos + 1, n, s[line_pos + 1], <<"'">>)
    ELSE PasmSyntaxError("error_string_1", n, line_pos)

(***************************************************************************)
(* r_array, r_array_label, r_array_register                                *)
(***************************************************************************)
\* re.match('^[1-9][0-9]*(:[0-9]+)+$', array_str)
ArrayFormat(t) ==
    /\ Len(t) >= 3
    /\ IsDigit(t[1])
    /\ t[1] # "0"
    /\ \A i \in 1..Len(t) : IsDigit(t[i]) \/ t[i] = ":"
    /\ \E i \in 1..Len(t) : t[i] = ":"
    /\ t[Len(t)] # ":"
    /\ \A i \in 1..(Len(t) - 1) : ~(t[i] = ":" /\ t[i + 1] = ":")

\* the element count checked as an upper bound only
CountAtLeast(array) == int(array[1]) >= Len(array) - 1

\* check element count
CountMatches(array) == int(array[1]) = Len(array) - 1

ArrayOf(r, line_pos, n) ==
    IF ~ArrayFormat(r.literal)
    THEN PasmSyntaxError("error_array", n, line_pos)
    ELSE IF ~CountMatches(split(r.literal))
    THEN PasmSyntaxError("error_array_count", n, line_pos)
    ELSE Ok(r.literal, r.line_pos)

r_array(s, line_pos, n) == ArrayOf(Token(s, line_pos), line_pos, n)

\* the element checks of r_array_label and r_array_register: every
\* element after the count is at most max
ElementsInRange(array, max) == \A i \in 2..Len(array) : int(array[i]) <= max

\* a is what r_array returned, msg the error of an element above max
CheckedArray(a, max, msg, n) ==
    IF a.err # "" THEN a
    ELSE IF ~ElementsInRange(split(a.value), max)
    THEN PasmSyntaxError(msg, n, a.line_pos)
    ELSE a

r_array_label(s, line_pos, n) ==
    CheckedArray(r_array(s, line_pos, n), LabelMax, "error_label_2", n)

r_array_register(s, line_pos, n) ==
    CheckedArray(r_array(s, line_pos, n), RegisterMax, "error_register_2", n)

(***************************************************************************)
(* r_separator, skip_comment                                               *)
(***************************************************************************)
\* a separator that may be left out
r_separator_optional(s, line_pos, n) ==
    IF line_pos >= Len(s) \/ s[line_pos + 1] # ","
    THEN Ok(<<>>, line_pos)
    ELSE Ok(<<>>, line_pos + 1)

r_separator(s, line_pos, n) ==
    IF line_pos >= Len(s) \/ s[line_pos + 1] # ","
    THEN PasmSyntaxError("error_separator", n, line_pos)
    ELSE Ok(<<>>, line_pos + 1)

skip_comment(s, line_pos, n) ==
    IF line_pos + 1 >= Len(s)
       \/ (Slice2(s, line_pos) # <<"/", "/">> /\ Slice2(s, line_pos) # <<"/", "*">>)
    THEN PasmSyntaxError("error_comment", n, line_pos)
    ELSE Ok(<<>>, line_pos)

(***************************************************************************)
(* Statement, the alias table and the opcode dictionary.  The dictionary   *)
(* holds the entries of _opcode_dict the model's inputs use: at least one  *)
(* opcode for every reader.                                                *)
(***************************************************************************)
Statement(opcode, params, label) == [label |-> label, opcode |-> opcode, params |-> params]

opcode_alias ==
    (<<"m", "s", "g">> :> <<"m", "e", "s", "s", "a", "g", "e">>) @@
    (<<"m", "o", "d", "i">> :> <<"u", "n", "k", "n", "o", "w", "n", "E", "A">>) @@
    (<<"i", "t", "e", "m", "_", "d", "e", "l", "e", "t", "e", "2">> :> <<"i", "t", "e", "m", "_", "d", "e", "l", "e", "t", "e", "2", "1", "C", "F">>)

opcode_dict ==
    (<<"n", "o", "p">> :> <<>>) @@
    (<<"r", "e", "t">> :> <<>>) @@
    (<<"e", "x", "i", "t">> :> <<"r_dword">>) @@
    (<<"j", "m", "p">> :> <<"r_label">>) @@
    (<<"s", "e", "t">> :> <<"r_register">>) @@
    (<<"g", "s", "e", "t">> :> <<"r_word">>) @@
    (<<"l", "e", "t", "i">> :> <<"r_register", "r_dword">>) @@
    (<<"f", "l", "e", "t", "i">> :> <<"r_register", "r_float">>) @@
    (<<"j", "m", "p", "_", "o", "n">> :> <<"r_label", "r_array_register">>) @@
    (<<"s", "w", "i", "t", "c", "h", "_", "j", "m", "p">> :> <<"r_register", "r_array_label">>) @@
    (<<"m", "e", "s", "s", "a", "g", "e">> :> <<"r_dword", "r_string">>) @@
    (<<"m", "o", "d", "i">> :> <<"r_register", "r_dword">>) @@
    (<<"u", "n", "k", "n", "o", "w", "n", "E", "A">> :> <<"r_register", "r_dword">>) @@
    (<<"i", "t", "e", "m", "_", "d", "e", "l", "e", "t", "e", "2">> :> <<"r_register", "r_register">>) @@
    (<<"i", "t", "e", "m", "_", "d", "e", "l", "e", "t", "e", "2", "1", "C", "F">> :> <<"r_dword">>) @@
    (<<"B", "B", "_", "M", "a", "p", "_", "D", "e", "s", "i", "g", "n", "a", "t", "e">> :> <<"r_byte", "r_word", "r_byte", "r_byte">>) @@
    (<<"H", "E", "X", ":">> :> <<"r_data">>) @@
    (<<"S", "T", "R", ":">> :> <<"r_string">>)

ret == <<"r", "e", "t">>

\* '{}'.format(param): a label is an int, every other value is text
Format(opd, v) == IF opd = "r_label" THEN str(v) ELSE v

RECURSIVE JoinParams(_, _, _)
JoinParams(def, params, i) ==
    IF i > Len(params) THEN <<>>
    ELSE (IF i > 1 THEN <<",", " ">> ELSE <<>>)
         \o Format(def[i], params[i]) \o JoinParams(def, params, i + 1)

\* Statement.to_string
to_string(stmt) ==
    LET label_str == IF stmt.label >= 0 THEN str(stmt.label) \o <<":">> ELSE <<>>
    IN  label_str \o Repeat(" ", 8 - Len(label_str)) \o stmt.opcode \o <<" ">>
        \o JoinParams(opcode_dict[stmt.opcode], stmt.params, 1)

(***************************************************************************)
(* The statement builder: opcode lookup and the parameter loop.            *)
(***************************************************************************)
Reader(opd, s, line_pos, n) ==
    CASE opd = "r_label"          -> r_label(s, line_pos, n)
      [] opd = "r_register"       -> r_register(s, line_pos, n)
      [] opd = "r_byte"           -> r_byte(s, line_pos, n, 1, FALSE)
      [] opd = "r_word"           -> r_word(s, line_pos, n)
      [] opd = "r_dword"          -> r_dword(s, line_pos, n)
      [] opd = "r_float"          -> r_float(s, line_pos, n)
      [] opd = "r_data"           -> r_data(s, line_pos, n)
      [] opd = "r_string"         -> r_string(s, line_pos, n)
      [] opd = "r_array_label"    -> r_array_label(s, line_pos, n)
      [] opd = "r_array_register" -> r_array_register(s, line_pos, n)

\* the labels of a label array never collected
JumpsOfLabelOnly(opd, literal) == IF opd = "r_label" THEN {literal} ELSE {}

\* the labels a parsed argument adds to label_jumps
JumpsOf(opd, literal) ==
    IF opd = "r_label" THEN {literal}
    ELSE IF opd = "r_array_label"
    THEN LET l == split(literal) IN {int(l[i]) : i \in 2..Len(l)}
    ELSE {}

\* The outcome of one step of the line loop: err = "" when the iteration
\* ends normally, else the exception raised; the other fields are the
\* values of the run's variables when the iteration ends or raises, and
\* stmts the statements appended to stmt_list.
Outcome(e, mlc, defs, jumps, stmts) ==
    [err |-> e.err, line_num |-> e.line_num, line_pos |-> e.line_pos,
     multiline_comment |-> mlc, label_defs |-> defs, label_jumps |-> jumps,
     stmts |-> stmts]

Continue == Ok(<<>>, 0)

\* what the parameter loop hands back: e is the exception raised (or
\* Ok with the position after the last argument)
Params(e, params, jumps) ==
    [err |-> e.err, line_num |-> e.line_num, line_pos |-> e.line_pos,
     params |-> params, jumps |-> jumps]

\* for opd in opcode_param_def: ... (i counts from 1)
RECURSIVE ParamLoop(_, _, _, _, _, _, _)

\* after the separator sep that follows argument i (r is the argument read)
AfterSeparator(def, i, s, n, params, jumps, r, sep) ==
    IF sep.err # ""
    THEN Params(sep, Append(params, r.value), jumps)
    ELSE ParamLoop(def, i + 1, s, skip_spaces(s, sep.line_pos), n,
                   Append(params, r.value), jumps \cup JumpsOf(def[i], r.value))

\* after reader i returned r: append the value, require a separator when
\* it is not the last argument, collect the label jumps
AfterReader(def, i, s, n, params, jumps, r) ==
    IF r.err # ""
    THEN Params(r, params, jumps)
    ELSE IF i < Len(def)
    THEN AfterSeparator(def, i, s, n, params, jumps, r,
                        r_separator(s, skip_spaces(s, r.line_pos), n))
    ELSE ParamLoop(def, i + 1, s, r.line_pos, n,
                   Append(params, r.value), jumps \cup JumpsOf(def[i], r.value))

ParamLoop(def, i, s, line_pos, n, params, jumps) ==
    IF i > Len(def)
    THEN Params(Ok(<<>>, line_pos), params, jumps)
    ELSE AfterReader(def, i, s, n, params, jumps, Reader(def[i], s, line_pos, n))

\* the alias table consulted only for a name the dictionary does not hold
ResolveAliasAfterDict(opcode) ==
    IF opcode \in DOMAIN opcode_dict THEN opcode
    ELSE IF opcode \in DOMAIN opcode_alias THEN opcode_alias[opcode] ELSE opcode

\* if opcode in _opcode_alias.keys(): opcode = _opcode_alias[opcode]
ResolveAlias(opcode) ==
    IF opcode \in DOMAIN opcode_alias THEN opcode_alias[opcode] ELSE opcode

\* whatever follows the statement has to be a comment
TrailingCommentStrict(s, p, n) ==
    IF p < Len(s) THEN skip_comment(s, p, n) ELSE Continue

\* discard comments (after the statement): p is the position after the
\* spaces that follow the statement
TrailingComment(s, p, n) ==
    IF p < Len(s) /\ s[p + 1] = "/" THEN skip_comment(s, p, n) ELSE Continue

\* the statement appended without the label of its line
AppendStatementNoLabel(s, n, opcode, label, mlc, defs, a) ==
    IF a.err # ""
    THEN Outcome(a, mlc, defs, a.jumps, <<>>)
    ELSE Outcome(TrailingComment(s, skip_spaces(s, a.line_pos), n), mlc, defs, a.jumps,
                 <<Statement(opcode, a.params, -1)>>)

\* stmt_list.append(stmt) after the parameter loop returned a
AppendStatement(s, n, opcode, label, mlc, defs, a) ==
    IF a.err # ""
    THEN Outcome(a, mlc, defs, a.jumps, <<>>)
    ELSE Outcome(TrailingComment(s, skip_spaces(s, a.line_pos), n), mlc, defs, a.jumps,
                 <<Statement(opcode, a.params, label)>>)

\* the descriptor lookup of the (possibly aliased) opcode and its arguments
BuildStatement(s, line_pos, n, opcode, label, mlc, defs, jumps) ==
    IF opcode \notin DOMAIN opcode_dict
    THEN Outcome(PasmSyntaxError("error_opcode_2", n, line_pos), mlc, defs, jumps, <<>>)
    ELSE AppendStatement(s, n, opcode, label, mlc, defs,
                         ParamLoop(opcode_dict[opcode], 1, s, skip_spaces(s, line_pos),
                                   n, <<>>, jumps))

\* parse opcode: tok is the opcode token with the position after it
OpcodeOf(s, n, tok, label, mlc, defs, jumps) ==
    BuildStatement(s, tok.line_pos, n, ResolveAlias(tok.literal), label, mlc, defs, jumps)

ParseStatement(s, line_pos, n, label, mlc, defs, jumps) ==
    OpcodeOf(s, n, read(s, line_pos, "[^\\s]"), label, mlc, defs, jumps)

(***************************************************************************)
(* main: the body of the line loop.                                        *)
(***************************************************************************)
\* if line_str[line_pos:line_pos+2] == '*/': multiline_comment = False
ClosesComment(s, line_pos) == Slice2(s, line_pos) = <<"*", "/">>

\* if line_str[line_pos:line_pos+2] == '/*': multiline_comment = True
OpensComment(s, line_pos) == Slice2(s, line_pos) = <<"/", "*">>

\* the redefinition check with the comparison of the sign turned round
LabelRedefinedWrongSign(label, defs) == label < 0 /\ label \in defs

\* if label >= 0 and label in label_defs
LabelRedefined(label, defs) == label >= 0 /\ label \in defs

\* from `if line_pos >= length` (opcode expected) to the end of the body
OpcodePart(s, line_pos, n, label, mlc, defs, jumps) ==
    IF line_pos >= Len(s)
    THEN Outcome(PasmSyntaxError("error_opcode_1", n, line_pos), mlc, defs, jumps, <<>>)
    ELSE IF ~IsSpace(s[line_pos + 1])
    THEN ParseStatement(s, line_pos, n, label, mlc, defs, jumps)
    ELSE Outcome(PasmSyntaxError("error_opcode_1", n, line_pos), mlc, defs, jumps, <<>>)

\* the label definition l that r_label returned: redefinition, then ':'
DefineLabel(s, n, l, mlc, defs, jumps) ==
    IF l.err # ""
    THEN Outcome(l, mlc, defs, jumps, <<>>)
    ELSE IF LabelRedefined(l.value, defs)
    THEN Outcome(PasmSyntaxError("error_label_4", n, l.line_pos), mlc, defs, jumps, <<>>)
    ELSE IF ~(l.line_pos < Len(s) /\ s[l.line_pos + 1] = ":")
    THEN Outcome(PasmSyntaxError("error_label_3", n, l.line_pos),
                 mlc, defs \cup {l.value}, jumps, <<>>)
    ELSE OpcodePart(s, skip_spaces(s, l.line_pos + 1), n, l.value,
                    mlc, defs \cup {l.value}, jumps)

\* check if there is a label definition
LabelDefinition(s, line_pos, n, mlc, defs, jumps) ==
    DefineLabel(s, n, r_label(s, line_pos, n), mlc, defs, jumps)

\* discard comments: c is what skip_comment returned at position p
CommentLine(s, p, c, mlc, defs, jumps) ==
    IF c.err # ""
    THEN Outcome(c, mlc, defs, jumps, <<>>)
    ELSE Outcome(Continue, OpensComment(s, p), defs, jumps, <<>>)

\* a loop body that looks for a label definition before it looks at the
\* comment state
LineFromLabelFirst(s, p, n, mlc, defs, jumps) ==
    IF p >= Len(s)
    THEN Outcome(Continue, mlc, defs, jumps, <<>>)
    ELSE IF IsDigit(s[p + 1])
    THEN LabelDefinition(s, p, n, mlc, defs, jumps)
    ELSE IF mlc
    THEN Outcome(Continue, ~ClosesComment(s, p), defs, jumps, <<>>)
    ELSE IF s[p + 1] = "/"
    THEN CommentLine(s, p, skip_comment(s, p, n), mlc, defs, jumps)
    ELSE OpcodePart(s, p, n, -1, mlc, defs, jumps)

\* the loop body from position p, the first character that is no space
LineFrom(s, p, n, mlc, defs, jumps) ==
    IF p >= Len(s)
    THEN Outcome(Continue, mlc, defs, jumps, <<>>)
    ELSE IF mlc
    THEN Outcome(Continue, ~ClosesComment(s, p), defs, jumps, <<>>)
    ELSE IF s[p + 1] = "/"
    THEN CommentLine(s, p, skip_comment(s, p, n), mlc, defs, jumps)
    ELSE IF IsDigit(s[p + 1])
    THEN LabelDefinition(s, p, n, mlc, defs, jumps)
    ELSE OpcodePart(s, p, n, -1, mlc, defs, jumps)

\* one iteration of `for line_str in f_in` on line s, the n-th line
LineBody(s, n, mlc, defs, jumps) == LineFrom(s, skip_spaces(s, 0), n, mlc, defs, jumps)

(***************************************************************************)
(* The run: the line loop, the except clause, the label check and the      *)
(* output.                                                                 *)
(***************************************************************************)
\* the greatest number of lines of a source file
MaxLines == 4

\* the source lines of the files of Spec
RunLines ==
    {<<"\n">>,
     <<"/", "/", " ", "c", "\n">>,
     <<"/", "*", " ", "a", "\n">>,
     <<"c", " ", "*", "/", "\n">>,
     <<"*", "/", "\n">>,
     <<"7", ":", " ", "r", "e", "t", "\n">>,
     <<"7", ":", " ", "j", "m", "p", " ", "7">>,
     <<"j", "m", "p", " ", "5", "0", "\n">>,
     <<"j", "m", "p", " ", "5", "0", " ", "/", "/", " ", "x", "\n">>,
     <<"s", "w", "i", "t", "c", "h", "_", "j", "m", "p", " ", "R", "1", ",", " ", "2", ":", "5", "0", ":", "5", "1", "\n">>,
     <<"b", "o", "g", "u", "s", "\n">>,
     <<"7", " ", "r", "e", "t", "\n">>,
     <<"r", "e", "t", " ", "/", "x", "\n">>,
     <<"/", "*", " ", "c", " ", "*", "/", "\n">>,
     <<"r", "e", "t", " ", "/", "*", " ", "c", "\n">>,
     <<"j", "m", "p", " ", "7", "\n">>,
     <<"5", "0", ":", " ", "n", "o", "p", "\n">>}

Printed(msg, n, p, lab) == [msg |-> msg, line_num |-> n, line_pos |-> p, label |-> lab]

Closed == [open |-> FALSE, text |-> <<>>]

Init ==
    /\ pc = "loop"
    /\ fix_labels \in BOOLEAN
    /\ line_num = 0
    /\ line_str = <<>>
    /\ multiline_comment = FALSE
    /\ label_defs = {}
    /\ label_jumps = {}
    /\ stmt_list = <<>>
    /\ stdout = <<>>
    /\ f_out = Closed
    /\ todo = {}

\* the except clause without its return: the label check follows
AfterErrorNoReturn == "check"

\* where main goes after `except PasmSyntaxError as pse: pse.print_error()`
AfterError == "returned"

\* an iteration that looks for the targets of the jumps at once, and warns
\* of a label that no line has defined so far
IterationChecksLabels(s, o) ==
    /\ line_num' = line_num + 1
    /\ line_str' = s
    /\ multiline_comment' = o.multiline_comment
    /\ label_defs' = o.label_defs
    /\ label_jumps' = o.label_jumps
    /\ stmt_list' = stmt_list \o o.stmts
    /\ pc' = IF o.err = "" THEN "loop"
             ELSE IF o.err \in Uncaught THEN "crashed"
             ELSE AfterError
    /\ stdout' = IF o.err \in Uncaught THEN stdout
                 ELSE IF o.err # ""
                 THEN Append(stdout, Printed(o.err, o.line_num, o.line_pos, -1))
                 ELSE IF o.label_jumps \ o.label_defs # {}
                 THEN Append(stdout, Printed("warn_label", 0, 0,
                                             CHOOSE lab \in o.label_jumps \ o.label_defs : TRUE))
                 ELSE stdout
    /\ UNCHANGED <<fix_labels, f_out, todo>>

\* One iteration of the line loop on the next line of the file; a
\* PasmSyntaxError ends in the except clause, any other exception ends
\* the program.
Iteration(s, o) ==
    /\ line_num' = line_num + 1
    /\ line_str' = s
    /\ multiline_comment' = o.multiline_comment
    /\ label_defs' = o.label_defs
    /\ label_jumps' = o.label_jumps
    /\ stmt_list' = stmt_list \o o.stmts
    /\ pc' = IF o.err = "" THEN "loop"
             ELSE IF o.err \in Uncaught THEN "crashed"
             ELSE AfterError
    /\ stdout' = IF o.err \in {""} \cup Uncaught THEN stdout
                 ELSE Append(stdout, Printed(o.err, o.line_num, o.line_pos, -1))
    /\ UNCHANGED <<fix_labels, f_out, todo>>

ReadLine(s) ==
    /\ pc = "loop"
    /\ Iteration(s, LineBody(s, line_num + 1, multiline_comment, label_defs, label_jumps))

ReadRunLine ==
    /\ line_num < MaxLines
    /\ \E s \in RunLines : ReadLine(s)

\* the file is exhausted: the loop over label_jumps starts
EndOfFile ==
    /\ pc = "loop"
    /\ pc' = "check"
    /\ todo' = label_jumps
    /\ UNCHANGED <<fix_labels, line_num, line_str, multiline_comment,
                   label_defs, label_jumps, stmt_list, stdout, f_out>>

\* the target check with the negation lost
MissingTargetNegated(lab, defs) == lab \in defs

\* if not lab in label_defs
MissingTarget(lab, defs) == lab \notin defs

\* the dummy entry put in front of the statements
AddDummyInFront(stmts, lab) == <<Statement(ret, <<>>, lab)>> \o stmts

\* stmt_list.append(Statement('ret', [], lab))
AddDummy(stmts, lab) == Append(stmts, Statement(ret, <<>>, lab))

\* one iteration of `for lab in label_jumps`
CheckLabel ==
    /\ pc = "check"
    /\ \E lab \in todo :
         /\ todo' = todo \ {lab}
         /\ IF MissingTarget(lab, label_defs)
            THEN /\ stdout' = IF fix_labels
                              THEN stdout \o <<Printed("warn_label", 0, 0, lab),
                                               Printed("warn_label_add", 0, 0, lab)>>
                              ELSE Append(stdout, Printed("warn_label", 0, 0, lab))
                 /\ stmt_list' = IF fix_labels THEN AddDummy(stmt_list, lab) ELSE stmt_list
            ELSE UNCHANGED <<stdout, stmt_list>>
    /\ UNCHANGED <<pc, fix_labels, line_num, line_str, multiline_comment,
                   label_defs, label_jumps, f_out>>

\* convert to qedit readable format
WriteOutput ==
    /\ pc = "check"
    /\ todo = {}
    /\ f_out' = [open |-> TRUE, text |-> [i \in 1..Len(stmt_list) |-> to_string(stmt_list[i])]]
    /\ pc' = "done"
    /\ UNCHANGED <<fix_labels, line_num, line_str, multiline_comment,
                   label_defs, label_jumps, stmt_list, stdout, todo>>

Next == ReadRunLine \/ EndOfFile \/ CheckLabel \/ WriteOutput

Spec == Init /\ [][Next]_vars

(***************************************************************************)
(* SpecArgs: the runs on the files of one statement line, the arguments    *)
(* of the statement drawn from bounded sets of tokens.                     *)
(***************************************************************************)
\* the greatest length of a generated FixedBytes, label, array and string token
MaxByteLen == 3

MaxLabelLen == 5

MaxArrayLen == 5

MaxStringLen == 4

SeqsUpTo(S, n) == UNION {[1..k -> S] : k \in 0..n}

ByteTokens == SeqsUpTo({"-", "0", "1", "9", "A", "f", "x"}, MaxByteLen)

LabelTokens == SeqsUpTo({"3", "5", "6"}, MaxLabelLen) \cup
    {<<"0">>,
     <<"0", "0", "7">>,
     <<"5", "0", "a", "b", "c">>,
     <<"x">>,
     <<"6", "5", "5", "3", "5", ",">>}

ArrayTokens == SeqsUpTo({"1", "2", ":"}, MaxArrayLen) \cup
    {<<"3", ":", "1", ":", "2", ":", "3">>,
     <<"3", ":", "1", ":", "2">>,
     <<"0", ":", "1">>,
     <<"1", ":", "0">>,
     <<"1", "0", ":", "1">>,
     <<"2", ":", "5", "0", ":", "5", "0">>,
     <<"1", ":", "2", "5", "5">>,
     <<"1", ":", "2", "5", "6">>,
     <<"2", ":", "6", "5", "5", "3", "5", ":", "7">>,
     <<"1", ":", "6", "5", "5", "3", "6">>,
     <<"1", ":", "x">>,
     <<"1", ":", "1", ":">>}

StringTokens == SeqsUpTo({"'", "\"", "\\", "a"}, MaxStringLen) \cup
    {<<"'", "i", "t", "\\", "'", "s", "'">>,
     <<"\"", "i", "t", "'", "s", "\"">>,
     <<"'", "a", "b", "c">>,
     <<"'", "a", " ", "b", "'", " ", "/", "/", " ", "c">>,
     <<"a", "b", "c">>}

RegisterTokens ==
    {<<"R", "0">>,
     <<"r", "1">>,
     <<"R", "2", "5", "5">>,
     <<"R", "2", "5", "6">>,
     <<"R">>,
     <<"R", "0", "1">>,
     <<"R", "1", "0", "0", "0">>,
     <<"R", "x">>,
     <<"7">>,
     <<>>}

FloatTokens ==
    {<<"1", ".", "5">>,
     <<"-", "1", ".", "5">>,
     <<"-">>,
     <<".", ".">>,
     <<"1", "e", "5">>,
     <<"-", ".", "5">>,
     <<"5">>,
     <<>>}

DataTokens ==
    {<<"A", "B">>,
     <<"1", " ", "2", " ", "3">>,
     <<"a", "b", " ", "c", "d", " ", "/", "/", " ", "x">>,
     <<"1", ",", " ", "2">>,
     <<"1", "2", "3">>,
     <<"0", "x">>,
     <<"0", "x", "1", " ", "2">>,
     <<"-", "1">>,
     <<"x", "y">>,
     <<>>}

\* an opcode, a space, the rest of the line and the line end
Line(opcode, rest) == opcode \o <<" ">> \o rest \o <<"\n">>

ArgLines ==
    {Line(<<"g", "s", "e", "t">>, t) : t \in ByteTokens} \cup
    {Line(<<"e", "x", "i", "t">>, t) : t \in ByteTokens} \cup
    {Line(<<"B", "B", "_", "M", "a", "p", "_", "D", "e", "s", "i", "g", "n", "a", "t", "e">>, t \o <<",", " ", "0", ",", " ", "0", ",", " ", "0">>) : t \in ByteTokens} \cup
    {Line(<<"j", "m", "p">>, t) : t \in LabelTokens} \cup
    {t \o <<":", " ", "r", "e", "t", "\n">> : t \in LabelTokens} \cup
    {Line(<<"s", "w", "i", "t", "c", "h", "_", "j", "m", "p">>, <<"R", "1", ",", " ">> \o t) : t \in ArrayTokens} \cup
    {Line(<<"j", "m", "p", "_", "o", "n">>, <<"7", ",", " ">> \o t) : t \in ArrayTokens} \cup
    {Line(<<"S", "T", "R", ":">>, t) : t \in StringTokens} \cup
    {Line(<<"m", "s", "g">>, <<"1", ",", " ">> \o t) : t \in StringTokens} \cup
    {Line(<<"s", "e", "t">>, t) : t \in RegisterTokens} \cup
    {Line(<<"f", "l", "e", "t", "i">>, <<"R", "1", ",", " ">> \o t) : t \in FloatTokens} \cup
    {Line(<<"H", "E", "X", ":">>, t) : t \in DataTokens} \cup
    {<<"7", ":", " ", "l", "e", "t", "i", " ", "R", "1", " ", ",", " ", "0", "x", "1", "F", " ", "/", "/", " ", "c", "\n">>,
     <<"l", "e", "t", "i", " ", "R", "1", " ", "0", "x", "1", "F", "\n">>,
     <<"m", "o", "d", "i", " ", "r", "2", ",", " ", "1", "0", "\n">>,
     <<"i", "t", "e", "m", "_", "d", "e", "l", "e", "t", "e", "2", " ", "1", "6", "\n">>,
     <<"u", "n", "k", "n", "o", "w", "n", "E", "A", " ", "R", "1", ",", " ", "1", "\n">>,
     <<"m", "s", "g", " ", "1", " ", "'", "a", "'", "\n">>,
     <<"j", "m", "p", "_", "o", "n", " ", "7", " ", "1", ":", "1", "\n">>,
     <<"B", "B", "_", "M", "a", "p", "_", "D", "e", "s", "i", "g", "n", "a", "t", "e", " ", "1", ",", " ", "2", " ", "3", ",", " ", "4", "\n">>,
     <<"B", "B", "_", "M", "a", "p", "_", "D", "e", "s", "i", "g", "n", "a", "t", "e", " ", "2", "5", "5", ",", " ", "0", ",", " ", "0", ",", " ", "0", "\n">>,
     <<"g", "s", "e", "t", " ", "6", "5", "5", "3", "5", "\n">>,
     <<"i", "t", "e", "m", "_", "d", "e", "l", "e", "t", "e", "2", " ", "R", "1", ",", " ", "R", "2", "\n">>,
     <<"b", "o", "g", "u", "s", " ", "1", "\n">>,
     <<"n", "o", "p", " ", "5", "\n">>,
     <<"g", "s", "e", "t", " ", "1", ",", " ", "2", "\n">>,
     <<"g", "s", "e", "t", " ", "/", "/", " ", "c", "\n">>,
     <<"g", "s", "e", "t">>,
     <<"n", "o", "p">>,
     <<"r", "e", "t", " ", "/", "*", " ", "c", "\n">>,
     <<" ", " ", "\n">>}

ReadArgLine ==
    /\ line_num = 0
    /\ \E s \in ArgLines : ReadLine(s)

NextArgs == ReadArgLine \/ EndOfFile \/ CheckLabel \/ WriteOutput

SpecArgs == Init /\ [][NextArgs]_vars

(***************************************************************************)
(* Properties.                                                             *)
(***************************************************************************)
\* the statement of a file of one line has been parsed and appended
Parsed == pc = "loop" /\ line_num = 1 /\ Len(stmt_list) = 1

\* the error messages among the printed lines
IsError(m) == m.msg \notin {"warn_label", "warn_label_add"}

Failed(msg) == pc = "returned" /\ Len(stdout) = 1 /\ stdout[1].msg = msg

\* the line that to_string(stmt) becomes in the output file, parsed as the
\* first line of a new run
Reparsed(stmt) == LineBody(to_string(stmt) \o <<"\n">>, 1, FALSE, {}, {})

Idempotent(stmt) ==
    /\ Reparsed(stmt).err = ""
    /\ Len(Reparsed(stmt).stmts) = 1
    /\ to_string(Reparsed(stmt).stmts[1]) = to_string(stmt)

\* C1: the rendering of every parsed statement parses again, and renders
\* to the same text.
C1_RoundTrip == Parsed => Idempotent(stmt_list[1])

gset == <<"g", "s", "e", "t">>

exit == <<"e", "x", "i", "t">>

BB_Map_Designate == <<"B", "B", "_", "M", "a", "p", "_", "D", "e", "s", "i", "g", "n", "a", "t", "e">>

\* the width of the first argument of the FixedBytes opcodes of ArgLines
WidthOf(opcode) ==
    CASE opcode = BB_Map_Designate -> 1
      [] opcode = gset -> 2
      [] opcode = exit -> 4

MinusOne(opcode) ==
    IF opcode = BB_Map_Designate
    THEN Line(opcode, <<"-", "1", ",", " ", "0", ",", " ", "0", ",", " ", "0">>)
    ELSE Line(opcode, <<"-", "1">>)

\* C2: the token -1 is read as FF at width 1, FFFF at width 2 and FFFFFFFF
\* at width 4.
C2_MinusOne ==
    \A opcode \in {BB_Map_Designate, gset, exit} :
        (pc = "loop" /\ line_str = MinusOne(opcode)) =>
            /\ Len(stmt_list) = 1
            /\ stmt_list[1].params[1] = Repeat("F", 2 * WidthOf(opcode))

IsUpperHex(c) == IsDigit(c) \/ c \in {"A", "B", "C", "D", "E", "F"}

\* C3: every FixedBytes value that a reader returned is exactly width*2
\* upper-case hex digits.
C3_ExactWidth ==
    (Parsed /\ stmt_list[1].opcode \in {BB_Map_Designate, gset, exit}) =>
        /\ Len(stmt_list[1].params[1]) = 2 * WidthOf(stmt_list[1].opcode)
        /\ \A i \in 1..Len(stmt_list[1].params[1]) : IsUpperHex(stmt_list[1].params[1][i])

\* the line holds the two characters a, b next to each other
Holds(s, a, b) == \E i \in 1..(Len(s) - 1) : s[i] = a /\ s[i + 1] = b

\* C4: a line that holds the closer */ (and opens no comment itself) leaves
\* the multi-line-comment state inactive, also when the closer follows
\* other comment text.
C4_CloserAnywhere ==
    (pc = "loop" /\ line_num >= 1 /\ Holds(line_str, "*", "/")
        /\ ~Holds(line_str, "/", "*"))
    => ~multiline_comment

\* C5: once a syntax error is printed the run has ended at the failing
\* line with that one message: no warning, no label check, no output.
C5_FailFast ==
    (\E i \in 1..Len(stdout) : IsError(stdout[i])) =>
        /\ pc = "returned"
        /\ Len(stdout) = 1
        /\ stdout[1].line_num = line_num
        /\ todo = {}
        /\ f_out = Closed
        /\ ~ENABLED Next

\* a statement was parsed, a jump has no target and lines are left when a
\* line fails
C5_Witness ==
    /\ pc = "returned"
    /\ Len(stmt_list) >= 1
    /\ label_jumps \ label_defs # {}
    /\ line_num < MaxLines

\* the line starts, after spaces, with digits directly followed by ':'
DefinesLabel(s) ==
    LET r == read(s, skip_spaces(s, 0), "[0-9]")
    IN  Len(r.literal) > 0 /\ r.line_pos < Len(s) /\ s[r.line_pos + 1] = ":"

\* the digits a line starts with, and the position after them
LabelDigits(s) == read(s, skip_spaces(s, 0), "[0-9]")

NoLabelTwice ==
    \A i, j \in 1..Len(stmt_list) :
        (i # j /\ stmt_list[i].label >= 0) => stmt_list[i].label # stmt_list[j].label

\* a line outside a comment that defines a label already defined
Redefines(s) ==
    /\ pc = "loop"
    /\ ~multiline_comment
    /\ DefinesLabel(s)
    /\ int(LabelDigits(s).literal) \in label_defs

Refs(stmt) ==
    UNION {JumpsOf(opcode_dict[stmt.opcode][k], stmt.params[k]) : k \in 1..Len(stmt.params)}

Missing == label_jumps \ label_defs

Warnings(lab) == {i \in 1..Len(stdout) : stdout[i] = Printed("warn_label", 0, 0, lab)}

Labelled(lab) == {i \in 1..Len(stmt_list) : stmt_list[i].label = lab}

\* the statements whose label no line defined
Dummies == {i \in 1..Len(stmt_list) : stmt_list[i].label \notin label_defs \cup {-1}}

\* C7: after the label check there is one warning for each referenced
\* label without definition and no other warning; fix mode adds one
\* statement `lab: ret` for each of them, and without it nothing is added.
C7_LabelCheck ==
    pc = "done" =>
        /\ \A lab \in Missing :
              /\ Cardinality(Warnings(lab)) = 1
              /\ IF fix_labels
                 THEN \E i \in 1..Len(stmt_list) :
                         /\ Labelled(lab) = {i}
                         /\ stmt_list[i] = Statement(ret, <<>>, lab)
                 ELSE Labelled(lab) = {}
        /\ Cardinality({i \in 1..Len(stdout) : stdout[i].msg = "warn_label"})
              = Cardinality(Missing)
        /\ Cardinality(Dummies) = IF fix_labels THEN Cardinality(Missing) ELSE 0

\* fix mode, two labels without target, one of them referenced by two
\* statements, and a reference to a defined label
C7_Witness ==
    /\ pc = "done"
    /\ fix_labels
    /\ Cardinality(Missing) = 2
    /\ label_jumps \cap label_defs # {}
    /\ \E i, j \in 1..Len(stmt_list) :
          i # j /\ Refs(stmt_list[i]) \cap Refs(stmt_list[j]) \cap Missing # {}

\* C8: a step of the label check keeps the statements it found, in their
\* places, as a prefix of the statement list.
C8_OnlyAppends ==
    [][pc = "check" =>
          /\ Len(stmt_list') >= Len(stmt_list)
          /\ SubSeq(stmt_list', 1, Len(stmt_list)) = stmt_list]_vars

\* fix mode has added a statement behind two parsed statements
C8_Witness ==
    /\ pc = "done"
    /\ fix_labels
    /\ Dummies # {}
    /\ Len(stmt_list) - Cardinality(Dummies) >= 2

jmp == <<"j", "m", "p">>

switch_jmp == <<"s", "w", "i", "t", "c", "h", "_", "j", "m", "p">>

jmp_on == <<"j", "m", "p", "_", "o", "n">>

\* the first line of the file was s and the iteration on it has just ended
FirstLine(s) == line_num = 1 /\ line_str = s /\ pc \in {"loop", "returned", "crashed"}

Accepted == pc = "loop" /\ Len(stmt_list) = 1

\* C9: every defined and every referenced label is in 0..65535; 65535 is
\* accepted as a reference, a definition and an array element, 65536
\* fails with error_label_2 (range) and a reference without a digit fails
\* with error_label_1 (format).
C9_LabelRange ==
    /\ \A v \in label_defs \cup label_jumps : v >= 0 /\ v <= 65535
    /\ FirstLine(Line(jmp, <<"6", "5", "5", "3", "5">>)) => (Accepted /\ label_jumps = {65535})
    /\ FirstLine(Line(jmp, <<"6", "5", "5", "3", "6">>)) => Failed("error_label_2")
    /\ FirstLine(Line(jmp, <<"x">>)) => Failed("error_label_1")
    /\ FirstLine(Line(jmp, <<>>)) => Failed("error_label_1")
    /\ FirstLine(<<"6", "5", "5", "3", "5", ":", " ", "r", "e", "t", "\n">>) => (Accepted /\ label_defs = {65535})
    /\ FirstLine(<<"6", "5", "5", "3", "6", ":", " ", "r", "e", "t", "\n">>) => Failed("error_label_2")
    /\ FirstLine(Line(switch_jmp, <<"R", "1", ",", " ", "2", ":", "6", "5", "5", "3", "5", ":", "7">>)) =>
           (Accepted /\ label_jumps = {7, 65535})
    /\ FirstLine(Line(switch_jmp, <<"R", "1", ",", " ", "1", ":", "6", "5", "5", "3", "6">>)) => Failed("error_label_2")

\* the greatest label is referenced from a label array
C9_Witness == Accepted /\ label_jumps = {7, 65535} /\ stmt_list[1].opcode = switch_jmp

ArrayLine(opcode, array) ==
    Line(opcode, (IF opcode = switch_jmp THEN <<"R", "1", ",", " ">> ELSE <<"7", ",", " ">>) \o array)

\* the declared count of an accepted array is at least 1 and is the
\* number of the elements after it
CountHolds(array) ==
    /\ Len(array) >= 2
    /\ AllDigits(array[1], 1)
    /\ int(array[1]) >= 1
    /\ int(array[1]) = Len(array) - 1

\* C10: the count of every accepted array is at least 1 and equals the
\* number of its elements; 3:1:2:3 is accepted, 3:1:2 fails with
\* error_array_count and 0:1 with error_array (format).
C10_ArrayCount ==
    \A opcode \in {switch_jmp, jmp_on} :
        /\ (Accepted /\ stmt_list[1].opcode = opcode) => CountHolds(split(stmt_list[1].params[2]))
        /\ FirstLine(ArrayLine(opcode, <<"3", ":", "1", ":", "2", ":", "3">>)) => Accepted
        /\ FirstLine(ArrayLine(opcode, <<"3", ":", "1", ":", "2">>)) => Failed("error_array_count")
        /\ FirstLine(ArrayLine(opcode, <<"0", ":", "1">>)) => Failed("error_array")

C10_Witness ==
    /\ Accepted
    /\ FirstLine(ArrayLine(jmp_on, <<"3", ":", "1", ":", "2", ":", "3">>))
    /\ stmt_list[1].params[2] = <<"3", ":", "1", ":", "2", ":", "3">>

STR == <<"S", "T", "R", ":">>

msg == <<"m", "s", "g">>

StartsWith(s, prefix) == Len(s) >= Len(prefix) /\ SubSeq(s, 1, Len(prefix)) = prefix

\* the positions after start that hold the delimiter found at start, not
\* directly preceded by a backslash
Closers(s, start) ==
    {j \in (start + 1)..(Len(s) - 1) : s[j + 1] = s[start + 1] /\ s[j] # "\\"}

NextCloser(s, start) == CHOOSE j \in Closers(s, start) : \A k \in Closers(s, start) : j <= k

\* the characters from position i up to close, without the backslashes
\* that directly precede the delimiter d
RECURSIVE Between(_, _, _, _)
Between(s, i, close, d) ==
    IF i >= close THEN <<>>
    ELSE (IF s[i + 1] = "\\" /\ s[i + 2] = d THEN <<>> ELSE <<s[i + 1]>>)
         \o Between(s, i + 1, close, d)

\* what C11 states of the string that opens at position start of the
\* line s: got is what r_string returned, value the argument the
\* statement carries (<<>> when no statement was appended)
StringAsClaimed(s, start, got, value) ==
    IF Closers(s, start) = {}
    THEN /\ got.err = "error_string_2"
         /\ Failed("error_string_2")
         /\ stmt_list = <<>>
    ELSE /\ got.err = ""
         /\ got.value = <<"'">> \o Between(s, start + 1, NextCloser(s, start), s[start + 1]) \o <<"'">>
         /\ got.line_pos = NextCloser(s, start) + 1
         /\ value = got.value

\* C11: a string that opens with ' or " is read up to the next delimiter
\* not preceded by a backslash; the value is the text between, without the
\* backslashes that precede the delimiter, in single quotes, the position
\* the one after the closing delimiter; without a closing delimiter the
\* line fails with error_string_2 (string has no end).
C11_StringReader ==
    /\ (FirstLine(line_str) /\ StartsWith(line_str, STR \o <<" ">>)
            /\ line_str[6] \in {"'", "\""}) =>
          StringAsClaimed(line_str, 5, r_string(line_str, 5, 1),
                          IF stmt_list = <<>> THEN <<>> ELSE stmt_list[1].params[1])
    /\ (FirstLine(line_str) /\ StartsWith(line_str, msg \o <<" ", "1", ",", " ">>)
            /\ line_str[8] \in {"'", "\""}) =>
          StringAsClaimed(line_str, 7, r_string(line_str, 7, 1),
                          IF stmt_list = <<>> THEN <<>> ELSE stmt_list[1].params[2])

\* 'it\'s' has been read as it's
C11_Witness ==
    /\ Accepted
    /\ FirstLine(Line(STR, <<"'", "i", "t", "\\", "'", "s", "'">>))
    /\ stmt_list[1].params[1] = <<"'", "i", "t", "'", "s", "'">>

\* The head of a statement line s: the position q of the opcode token
\* (after the label and its ':' when the line starts with a digit), the
\* opcode with its alias resolved and the position of the first argument.
HeadAt(s, q) ==
    [opcode |-> ResolveAlias(read(s, q, "[^\\s]").literal),
     line_pos |-> skip_spaces(s, read(s, q, "[^\\s]").line_pos)]

LabelEnd(s) == read(s, skip_spaces(s, 0), "[0-9]").line_pos

LineHead(s) ==
    IF IsDigit(s[skip_spaces(s, 0) + 1])
    THEN HeadAt(s, skip_spaces(s, LabelEnd(s) + 1))
    ELSE HeadAt(s, skip_spaces(s, 0))

\* s is a statement line with a known opcode: not blank, no comment, and
\* a ':' after the label it starts with
IsStatementLine(s) ==
    /\ skip_spaces(s, 0) < Len(s)
    /\ s[skip_spaces(s, 0) + 1] # "/"
    /\ IsDigit(s[skip_spaces(s, 0) + 1]) =>
          /\ LabelEnd(s) < Len(s)
          /\ s[LabelEnd(s) + 1] = ":"
          /\ int(read(s, skip_spaces(s, 0), "[0-9]").literal) <= LabelMax
    /\ LineHead(s).opcode \in DOMAIN opcode_dict

Walked(status, params) == [status |-> status, params |-> params]

\* The arguments of line s read one after the other from position p by
\* the readers def lists: "ok" with the values read, "arg" when a reader
\* fails, "sep" when after an argument that is not the last, and the
\* spaces behind it, there is no ','.
RECURSIVE ArgsWalk(_, _, _, _, _, _)

WalkOn(def, i, s, n, params, r) ==
    IF r.err # "" THEN Walked("arg", params)
    ELSE IF i = Len(def) THEN Walked("ok", Append(params, r.value))
    ELSE IF skip_spaces(s, r.line_pos) < Len(s) /\ s[skip_spaces(s, r.line_pos) + 1] = ","
    THEN ArgsWalk(def, i + 1, s, skip_spaces(s, skip_spaces(s, r.line_pos) + 1), n,
                  Append(params, r.value))
    ELSE Walked("sep", Append(params, r.value))

ArgsWalk(def, i, s, p, n, params) ==
    IF i > Len(def) THEN Walked("ok", params)
    ELSE WalkOn(def, i, s, n, params, Reader(def[i], s, p, n))

WalkLine(s) == ArgsWalk(opcode_dict[LineHead(s).opcode], 1, s, LineHead(s).line_pos, 1, <<>>)

\* C12: every statement carries an opcode of the dictionary and as many
\* arguments as its entry lists; the statement parsed from the line
\* carries the values its readers return, in their order, and the
\* statements after it are the `lab: ret` of the label check; a line with
\* no ',' between two arguments fails with error_separator (separator
\* expected) and adds no statement.
C12_Arguments ==
    line_num = 1 =>
        /\ \A k \in 1..Len(stmt_list) :
              /\ stmt_list[k].opcode \in DOMAIN opcode_dict
              /\ Len(stmt_list[k].params) = Len(opcode_dict[stmt_list[k].opcode])
        /\ \A k \in 2..Len(stmt_list) :
              stmt_list[k] = Statement(ret, <<>>, stmt_list[k].label)
        /\ (stmt_list # <<>> /\ stmt_list[1].label \in label_defs \cup {-1}) =>
              /\ IsStatementLine(line_str)
              /\ stmt_list[1].opcode = LineHead(line_str).opcode
              /\ WalkLine(line_str) = Walked("ok", stmt_list[1].params)
        /\ (IsStatementLine(line_str) /\ WalkLine(line_str).status = "sep") =>
              /\ Failed("error_separator")
              /\ stmt_list = <<>>

\* the ',' is missing between the second and the third argument
C12_Witness ==
    /\ Failed("error_separator")
    /\ stmt_list = <<>>
    /\ line_str = Line(BB_Map_Designate, <<"1", ",", " ", "2", " ", "3", ",", " ", "4">>)

\* the line starts, after spaces, with /* and holds the closer */ behind it
CompleteComment(s) ==
    /\ Slice2(s, skip_spaces(s, 0)) = <<"/", "*">>
    /\ \E i \in (skip_spaces(s, 0) + 3)..(Len(s) - 1) : s[i] = "*" /\ s[i + 1] = "/"

\* C13: a line outside a comment that holds a complete block comment,
\* opened with /* and closed with */, leaves the multi-line-comment state
\* inactive, and the statement `7: ret` on the line after such a first
\* line is parsed and appended.
C13_CommentOnOneLine ==
    [][/\ (pc = "loop" /\ ~multiline_comment /\ line_num' = line_num + 1
              /\ CompleteComment(line_str')) => ~multiline_comment'
       /\ (pc = "loop" /\ line_num = 1 /\ CompleteComment(line_str) /\ line_num' = 2
              /\ line_str' = <<"7", ":", " ", "r", "e", "t", "\n">>) =>
             stmt_list' = <<Statement(ret, <<>>, 7)>>]_vars

\* the labels the k-th argument of a statement refers to: the label
\* itself, or the elements of the label array after its count
ReferencedBy(stmt, k) ==
    IF opcode_dict[stmt.opcode][k] = "r_label" THEN {stmt.params[k]}
    ELSE IF opcode_dict[stmt.opcode][k] = "r_array_label"
    THEN {int(split(stmt.params[k])[i]) : i \in 2..Len(split(stmt.params[k]))}
    ELSE {}

\* C14: when a run in fix mode has written its output, every label that
\* an argument or a label array of a statement refers to is the label of
\* exactly one statement.
C14_FixResolves ==
    (pc = "done" /\ fix_labels) =>
        \A j \in 1..Len(stmt_list) :
            \A k \in 1..Len(stmt_list[j].params) :
                \A lab \in ReferencedBy(stmt_list[j], k) : Cardinality(Labelled(lab)) = 1

\* fix mode has added a statement for an element of a label array, and a
\* parsed statement carries a label that is referenced
C14_Witness ==
    /\ pc = "done"
    /\ fix_labels
    /\ \E j \in 1..Len(stmt_list) : stmt_list[j].opcode = switch_jmp
    /\ \E j \in Dummies : stmt_list[j].label = 51
    /\ \E j \in 1..Len(stmt_list) :
          j \notin Dummies /\ stmt_list[j].label \in label_jumps

\* the token at the place of the first argument of statement line s
FirstToken(s) == Token(s, LineHead(s).line_pos).literal

\* C15: a FixedBytes argument without a digit (nothing left on the line,
\* a ',' or a '/' at its place, or the bare prefix 0x) fails with
\* error_byte (invalid byte format) at the line and the position of the
\* argument, and the run ends in the except clause.
C15_NoDigits ==
    (/\ line_num = 1
     /\ IsStatementLine(line_str)
     /\ LineHead(line_str).opcode \in {gset, exit, BB_Map_Designate}
     /\ FirstToken(line_str) \in {<<>>, <<"0", "x">>})
    => /\ Failed("error_byte")
       /\ stdout[1].line_num = 1
       /\ stdout[1].line_pos = LineHead(line_str).line_pos

\* an unsigned decimal token: digits only, the first of them not 0
IsDecimal(t) == Len(t) >= 1 /\ Len(t) <= 5 /\ AllDigits(t, 1) /\ t[1] # "0"

\* the value v fits in w bytes (v has at most 5 decimal digits)
Fits(v, w) == (w = 1 => v <= 255) /\ (w = 2 => v <= 65535)

\* C16: an unsigned decimal argument whose value fits in the width of its
\* reader is accepted, whatever the number of its digits, and read as the
\* upper-case hex of its value, padded with 0 to width*2 digits; so
\* 255 at width 1 gives FF and 65535 at width 2 gives FFFF.
C16_DecimalFits ==
    (/\ line_num = 1
     /\ IsStatementLine(line_str)
     /\ LineHead(line_str).opcode \in {gset, exit, BB_Map_Designate}
     /\ IsDecimal(FirstToken(line_str))
     /\ Fits(int(FirstToken(line_str)), WidthOf(LineHead(line_str).opcode)))
    => /\ stmt_list # <<>>
       /\ stmt_list[1].params[1] =
             FormatBytes(hex(int(FirstToken(line_str))), WidthOf(LineHead(line_str).opcode))

IsWarning(m) == m.msg \in {"warn_label", "warn_label_add"}

\* C17: a warning is printed only by the label check, which starts when
\* the last line has been read: from then on no line is read and the
\* label sets stay as they are, and at the end there is no warning for a
\* label that some line defines, before or after the reference to it.
C17_CheckAfterLastLine ==
    [][/\ (\E i \in 1..Len(stdout') : IsWarning(stdout'[i])) => pc' \in {"check", "done"}
       /\ pc \in {"check", "done"} =>
             /\ line_num' = line_num
             /\ label_defs' = label_defs
             /\ label_jumps' = label_jumps
       /\ pc' = "done" =>
             \A i \in 1..Len(stdout') : stdout'[i].label \notin label_defs']_vars

\* a statement refers to the label of a statement parsed after it, the
\* check has warned of another label, and no warning names a defined label
C17_Witness ==
    /\ pc = "done"
    /\ Missing # {}
    /\ \E j, k \in 1..Len(stmt_list) :
          /\ j < k
          /\ Len(stmt_list[j].params) = 1
          /\ stmt_list[k].label \in ReferencedBy(stmt_list[j], 1)
          /\ stmt_list[k].label \in label_defs
    /\ \A i \in 1..Len(stdout) : stdout[i].label \notin label_defs

\* C18: a line read while the multi-line-comment state is active raises
\* no error and changes neither the statements nor the label sets nor
\* what was printed: of the state of the run only the comment flag (and
\* the count of the lines) can change.
C18_CommentFrame ==
    [][(pc = "loop" /\ multiline_comment /\ line_num' = line_num + 1) =>
          /\ pc' = "loop"
          /\ stmt_list' = stmt_list
          /\ label_defs' = label_defs
          /\ label_jumps' = label_jumps
          /\ stdout' = stdout
          /\ UNCHANGED <<fix_labels, f_out, todo>>]_vars

\* inside a comment that follows a statement with the label 7, the line
\* `7 ret`, which outside a comment is an error, has been read
C18_Witness ==
    /\ pc = "loop"
    /\ multiline_comment
    /\ line_num >= 3
    /\ line_str = <<"7", " ", "r", "e", "t", "\n">>
    /\ label_defs = {7}
    /\ Len(stmt_list) = 1

\* the line starts, after spaces, with the digits of a label that no ':'
\* follows
LabelWithoutColon(s) ==
    /\ Len(LabelDigits(s).literal) > 0
    /\ ~(LabelDigits(s).line_pos < Len(s) /\ s[LabelDigits(s).line_pos + 1] = ":")

\* C19: a line outside a comment that starts with a label already
\* defined, without ':' behind it, ends the run with error_label_3
\* (':' expected after the label), not with error_label_4 (label already
\* defined).
C19_ColonBeforeRedefinition ==
    [][(/\ pc = "loop"
        /\ ~multiline_comment
        /\ line_num' = line_num + 1
        /\ LabelWithoutColon(line_str')
        /\ int(LabelDigits(line_str').literal) \in label_defs)
       => /\ pc' = "returned"
          /\ stdout' = <<Printed("error_label_3", line_num + 1,
                                 LabelDigits(line_str').line_pos, -1)>>]_vars

\* C20: when the statement of a line has been appended and the line ends
\* with a comment that /* opens and no */ closes, the multi-line-comment
\* state is active; the line read after such a first line is comment
\* text: it raises no error and adds no statement.
C20_TrailingOpener ==
    [][/\ (/\ pc = "loop"
           /\ ~multiline_comment
           /\ line_num' = line_num + 1
           /\ Len(stmt_list') = Len(stmt_list) + 1
           /\ Holds(line_str', "/", "*")
           /\ ~Holds(line_str', "*", "/"))
          => multiline_comment'
       /\ (/\ pc = "loop"
           /\ line_num = 1
           /\ line_str = <<"r", "e", "t", " ", "/", "*", " ", "c", "\n">>
           /\ line_num' = 2)
          => (pc' = "loop" /\ stmt_list' = stmt_list)]_vars

\* the position of the opcode token of line s: behind the label, its ':'
\* and the spaces when the line starts with a digit
OpcodeAt(s) ==
    IF IsDigit(s[skip_spaces(s, 0) + 1])
    THEN skip_spaces(s, LabelEnd(s) + 1)
    ELSE skip_spaces(s, 0)

\* the opcode token as the line spells it
RawOpcode(s) == read(s, OpcodeAt(s), "[^\\s]").literal

\* the line s is no blank line and no comment, a ':' follows the label it
\* starts with, and an opcode token follows
HasOpcode(s) ==
    /\ skip_spaces(s, 0) < Len(s)
    /\ s[skip_spaces(s, 0) + 1] # "/"
    /\ IsDigit(s[skip_spaces(s, 0) + 1]) =>
          /\ LabelEnd(s) < Len(s)
          /\ s[LabelEnd(s) + 1] = ":"
          /\ int(read(s, skip_spaces(s, 0), "[0-9]").literal) <= LabelMax
    /\ OpcodeAt(s) < Len(s)

modi == <<"m", "o", "d", "i">>

unknownEA == <<"u", "n", "k", "n", "o", "w", "n", "E", "A">>

item_delete2 == <<"i", "t", "e", "m", "_", "d", "e", "l", "e", "t", "e", "2">>

item_delete21CF == <<"i", "t", "e", "m", "_", "d", "e", "l", "e", "t", "e", "2", "1", "C", "F">>

\* the name the opcode token tok stands for: its alias target when it is
\* a key of the alias table, whatever the dictionary holds
TargetOf(tok) == IF tok \in DOMAIN opcode_alias THEN opcode_alias[tok] ELSE tok

\* C21: no statement carries a key of the alias table as its opcode; the
\* statement of a line whose opcode token is an alias carries the alias
\* target and as many arguments as the entry of the target lists, also
\* when the token is itself a key of the dictionary (item_delete2 16 is
\* read with the one dword of item_delete21CF, item_delete2 R1, R2 fails
\* at that dword, modi is stored as unknownEA); a token whose target is no
\* key of the dictionary fails with error_opcode_2 (opcode does not exist).
C21_AliasFirst ==
    /\ \A k \in 1..Len(stmt_list) : stmt_list[k].opcode \notin DOMAIN opcode_alias
    /\ (line_num = 1 /\ HasOpcode(line_str) /\ stmt_list # <<>>) =>
          /\ stmt_list[1].opcode = TargetOf(RawOpcode(line_str))
          /\ Len(stmt_list[1].params) = Len(opcode_dict[TargetOf(RawOpcode(line_str))])
    /\ (line_num = 1 /\ HasOpcode(line_str)
            /\ TargetOf(RawOpcode(line_str)) \notin DOMAIN opcode_dict) =>
          (Failed("error_opcode_2") /\ stmt_list = <<>>)
    /\ FirstLine(Line(item_delete2, <<"1", "6">>)) =>
          /\ Accepted
          /\ stmt_list[1] = Statement(item_delete21CF,
                                      <<<<"0", "0", "0", "0", "0", "0", "1", "0">>>>, -1)
    /\ FirstLine(Line(item_delete2, <<"R", "1", ",", " ", "R", "2">>)) => Failed("error_byte")
    /\ FirstLine(Line(modi, <<"r", "2", ",", " ", "1", "0">>)) =>
          /\ Accepted
          /\ stmt_list[1] = Statement(unknownEA,
                                      <<<<"r", "2">>, <<"0", "0", "0", "0", "0", "0", "0", "A">>>>, -1)

\* item_delete2, a key of both tables, has been stored as item_delete21CF
\* with its one argument
C21_Witness ==
    /\ Accepted
    /\ RawOpcode(line_str) = item_delete2
    /\ stmt_list[1].opcode = item_delete21CF
    /\ Len(stmt_list[1].params) = 1

nop == <<"n", "o", "p">>

\* C22: when the readers of the opcode have read all their arguments
\* from a line, its statement is appended with exactly these arguments,
\* and the only error the line can still raise is error_comment (invalid
\* comment) at a '/': text that does not start with '/' is dropped, as
\* the abc of jmp 50abc, the 5 of nop 5 and the , 2 of gset 1, 2.
C22_RestIgnored ==
    /\ (line_num = 1 /\ IsStatementLine(line_str) /\ WalkLine(line_str).status = "ok") =>
          /\ stmt_list # <<>>
          /\ stmt_list[1].params = WalkLine(line_str).params
          /\ pc # "crashed"
          /\ pc = "returned" =>
                /\ Failed("error_comment")
                /\ line_str[stdout[1].line_pos + 1] = "/"
    /\ FirstLine(Line(jmp, <<"5", "0", "a", "b", "c">>)) =>
          (Accepted /\ stmt_list[1] = Statement(jmp, <<50>>, -1))
    /\ FirstLine(Line(nop, <<"5">>)) =>
          (Accepted /\ stmt_list[1] = Statement(nop, <<>>, -1))
    /\ FirstLine(Line(gset, <<"1", ",", " ", "2">>)) =>
          (Accepted /\ stmt_list[1] = Statement(gset, <<<<"0", "0", "0", "1">>>>, -1))

\* the second argument of gset 1, 2 has been dropped
C22_Witness ==
    /\ Accepted
    /\ FirstLine(Line(gset, <<"1", ",", " ", "2">>))
    /\ stmt_list[1].params = <<<<"0", "0", "0", "1">>>>

\* the labels the statements carry (-1 stands for no label)
Carried == {stmt_list[i].label : i \in 1..Len(stmt_list)} \ {-1}

\* C23: while the lines are read without error, and when the label
\* check starts, label_defs is the set of the labels the statements
\* carry; no two statements carry the same label, also when the label
\* check has appended its statements, whose labels are the referenced
\* labels outside label_defs.
C23_DefinitionsAreLabels ==
    /\ pc = "loop" => (label_defs = Carried /\ NoLabelTwice)
    /\ pc \in {"check", "done"} =>
          /\ NoLabelTwice
          /\ label_defs \subseteq Carried
          /\ Carried \ label_defs \subseteq label_jumps
          /\ Cardinality(Carried) = Cardinality(label_defs) + Cardinality(Dummies)

\* two lines have defined the labels 7 and 50, a line without label was
\* parsed too, and fix mode has added a statement for a third label
C23_Witness ==
    /\ pc = "done"
    /\ fix_labels
    /\ label_defs = {7, 50}
    /\ Dummies # {}
    /\ \E i \in 1..Len(stmt_list) : stmt_list[i].label = -1

====
